---------------------------- MODULE Spec2Model ----------------------------
(***************************************************************************)
(* A model of the weather pipeline of Maelaf/DE-case-study:                *)
(*   src/src/parametrize.py          the planner (task manifest)           *)
(*   src/src/scraper/openmeteo.py    the fetch stage (scrape, fetch_day)   *)
(*   src/src/transform/openmeteo.py  the transform stage (merge, write)    *)
(*                                                                         *)
(* Six specifications share the variables:                                 *)
(*   SpecScrape     runs of scrape() over a manifest, request by request   *)
(*   SpecMerge      merge_with_historical applied to bounded inputs        *)
(*   SpecTransform  repeated transform runs on one structured partition    *)
(*   SpecLoop       transform(): the loop over the groups of a manifest    *)
(*   SpecPlan       parametrize(): duration, date range, tasks, grouping   *)
(*   SpecPivot      long_to_wide applied to bounded long tables            *)
(***************************************************************************)
EXTENDS Integers, Sequences, FiniteSets, TLC

VARIABLES
    \* ---- fetch stage (scraper/openmeteo.py) ----
    manifest,      \* tasks.json: [tasks |-> Seq(task), locations |-> set of names]
    rawfiles,      \* raw path -> state of the file at that path
    pc,            \* position of scrape(): "loop", "fetch", "done", "aborted"
    idx,           \* 1-based index of the task the for loop is at
    total,         \* scrape.total   (files written)
    skipped,       \* scrape.skipped
    errors,        \* scrape.errors
    errored,       \* scrape.errored (list of dates)
    log,           \* one entry per logging call of the loop body, in order
    attempt,       \* fetch_day: loop variable of range(MAX_RETRIES)
    requests,      \* requests.get calls issued by the current fetch_day call
    slept,         \* seconds slept by the current fetch_day call
    lastResponse,  \* how the latest requests.get of the call ended
    fetchResult,   \* how the current/latest fetch_day call ended
    run,           \* number of the scrape()/transform() run
    \* ---- transform stage (transform/openmeteo.py) ----
    stored,        \* the file at the structured path
    wide_new,      \* the wide table handed to merge_with_historical
    merged,        \* what merge_with_historical returned
    hist_before,   \* the file at the structured path when the merge began
    tpc,           \* position of the transform stage
    \* ---- transform(): the loop over the groups of a manifest ----
    groups,        \* per group, the structured file: "absent", "old", "written"
    gidx,          \* 1-based index of the group the for loop is at
    gpc,           \* position of transform(): "start", "loop", "done", "aborted"
    processed,     \* transform.processed
    gskipped,      \* transform.skipped
    graw,          \* the raw files of the group handled last (list of states)
    glog,          \* one entry per group handled, in order
    \* ---- planner (parametrize.py) ----
    config,        \* workload.json: begin_date, end_date, time_increment, ...
    ppc,           \* position of parametrize(): "parse", "range", "planned",
                   \* "grouped", "rejected"
    step,          \* the timedelta parse_iso8601_duration returned, in seconds
    current,       \* build_date_range.current
    dates,         \* build_date_range.dates
    tasks,         \* parametrize.tasks
    grouped,       \* what group_tasks_by_location_month returns for tasks
    \* ---- long_to_wide (transform/openmeteo.py) ----
    df_long,       \* the long table handed to long_to_wide
    wide,          \* what long_to_wide returned
    vpc            \* "ready", "pivoted"

scrapeVars == <<manifest, rawfiles, pc, idx, total, skipped, errors, errored,
                log, attempt, requests, slept, lastResponse, fetchResult>>
mergeVars == <<stored, wide_new, merged, hist_before, tpc>>
loopVars == <<groups, gidx, gpc, processed, gskipped, graw, glog>>
planVars == <<config, ppc, step, current, dates, tasks, grouped>>
pivotVars == <<df_long, wide, vpc>>
otherVars == <<loopVars, planVars, pivotVars>>
vars == <<scrapeVars, mergeVars, run, otherVars>>

-----------------------------------------------------------------------------
(* Bounds of the model *)
MaxLocs == 2     \* locations in a manifest
MaxDates == 2    \* dates per location in a manifest
MaxRuns == 2     \* consecutive runs of a stage
MaxRows == 2     \* rows of an input table
MaxTime == 3     \* whole-millisecond instants of the timestamps
MaxGroups == 2   \* (location, month) groups of a manifest
MaxDay == 4      \* the dates of a workload are the days 0..MaxDay
DaysPerMonth == 2    \* days of a month of the model's calendar
MonthsPerYear == 2   \* months of a year of the model's calendar

-----------------------------------------------------------------------------
(* ========================= fetch stage ================================= *)

MAX_RETRIES == 3
RETRY_DELAY == 2

\* The keys of LOCATION_COORDS.
LOCATION_COORDS == {"amsterdam", "london"}

\* Location names a workload may configure; "paris" has no coordinates.
LocationNames == {"amsterdam", "paris"}

\* Sequences of distinct location names, at most MaxLocs long.
LocationLists ==
    { s \in UNION { [1..n -> LocationNames] : n \in 1..MaxLocs } :
        \A i, j \in DOMAIN s : i # j => s[i] # s[j] }

\* materialize_path on the raw template: one path per (location, date).
RawPath(location, date) == <<"raw", location, date>>

\* The task list parametrize() builds: locations outer, dates inner.
TaskList(locs, ndates) ==
    [ k \in 1..(Len(locs) * ndates) |->
        LET l == locs[((k - 1) \div ndates) + 1]
            d == ((k - 1) % ndates) + 1
        IN  [location |-> l, date |-> d, raw_path |-> RawPath(l, d)] ]

\* tasks.json as parametrize() writes it: the tasks and the echoed locations.
Manifests ==
    { [tasks |-> TaskList(locs, n), locations |-> { locs[i] : i \in DOMAIN locs }] :
        locs \in LocationLists, n \in 1..MaxDates }

RawPaths == { RawPath(l, d) : l \in LocationNames, d \in 1..MaxDates }

\* Path(raw_path).exists()
Exists(file) == file # "absent"

\* get_sensors_for_location finds an entry for the name.
HasSensors(location) == location \in manifest.locations

\* LOCATION_COORDS.get(location) is truthy.
HasCoords(location) == location \in LOCATION_COORDS

\* How one requests.get + raise_for_status + response.json() can end.
\*   "rows"      a 2xx answer with hourly timestamps
\*   "empty"     a 2xx answer without hourly timestamps
\*   "http"      raise_for_status raised HTTPError
\*   "transport" any other exception (connection, timeout, bad JSON)
Responses == {"rows", "empty", "http", "transport"}

\* The branch of fetch_day's try statement a response takes.
FetchBranchRetryHTTP(resp) ==
    CASE resp \in {"rows", "empty"} -> "return"
      [] OTHER -> "retry"

FetchBranch(resp) ==
    CASE resp \in {"rows", "empty"} -> "return"
      [] resp = "http" -> "raise_http"
      [] OTHER -> "retry"

\* `if attempt == MAX_RETRIES - 1: raise`
LastAttemptOffByOne(a) == a = MAX_RETRIES

LastAttempt(a) == a = MAX_RETRIES - 1

\* json_to_long: the long table of a response (its row count class).
json_to_longNoTable(resp) == IF resp = "rows" THEN "rows" ELSE "absent"

json_to_long(resp) == IF resp = "rows" THEN "rows" ELSE "empty"

\* The except clause of scrape() that handles an exception raised in the try
\* block: "http" (appends the date), "runtime", "other"; "none" = not caught.
ExceptClauseNarrow(exc) ==
    CASE exc = "HTTPError" -> "http"
      [] exc = "RuntimeError" -> "runtime"
      [] OTHER -> "none"

ExceptClause(exc) ==
    CASE exc = "HTTPError" -> "http"
      [] exc = "RuntimeError" -> "runtime"
      [] OTHER -> "other"

\* The skip test of the loop body: `if Path(raw_path).exists()`.
SkipNever(file) == FALSE

SkipTask(file) == Exists(file)

CurTask == manifest.tasks[idx]

\* `for task in tasks`: the loop of scrape() is at a task.
InLoop == pc = "loop" /\ idx <= Len(manifest.tasks)

\* `for attempt in range(MAX_RETRIES)`: fetch_day is in its loop body.
InFetchLoop == pc = "fetch" /\ attempt < MAX_RETRIES

\* The effect on scrape()'s locals of an exception raised inside the try block
\* for the current task; the file at the raw path becomes `file`.
Failed(exc, file) ==
    LET clause == ExceptClause(exc) IN
    /\ rawfiles' = [rawfiles EXCEPT ![CurTask.raw_path] = file]
    /\ IF clause = "none"
       THEN /\ pc' = "aborted"
            /\ UNCHANGED <<idx, errors, errored, log>>
       ELSE /\ pc' = "loop"
            /\ idx' = idx + 1
            /\ errors' = errors + 1
            /\ errored' = IF clause = "http"
                          THEN Append(errored, CurTask.date) ELSE errored
            /\ log' = Append(log, [kind |-> "error", exc |-> exc,
                                   date |-> CurTask.date])
    /\ UNCHANGED <<total, skipped>>

InitScrapeLocals ==
    /\ pc = "loop"
    /\ idx = 1
    /\ total = 0
    /\ skipped = 0
    /\ errors = 0
    /\ errored = <<>>
    /\ log = <<>>
    /\ attempt = 0
    /\ requests = 0
    /\ slept = 0
    /\ lastResponse = "none"
    /\ fetchResult = "none"

\* Lines 139-143: the raw file exists, the task is skipped.
ScrapeSkip ==
    /\ InLoop
    /\ SkipTask(rawfiles[CurTask.raw_path])
    /\ skipped' = skipped + 1
    /\ log' = Append(log, [kind |-> "skip", exc |-> "none", date |-> CurTask.date])
    /\ idx' = idx + 1
    /\ UNCHANGED <<manifest, rawfiles, pc, total, errors, errored, attempt,
                   requests, slept, lastResponse, fetchResult, run, mergeVars, otherVars>>

\* Lines 146-147 and 34, 41-43: no sensors or no coordinates for the location;
\* ValueError before any request.
ScrapeUnknownLocation ==
    /\ InLoop
    /\ ~SkipTask(rawfiles[CurTask.raw_path])
    /\ ~(HasSensors(CurTask.location) /\ HasCoords(CurTask.location))
    /\ attempt' = 0
    /\ requests' = 0
    /\ slept' = 0
    /\ lastResponse' = "none"
    /\ fetchResult' = "ValueError"
    /\ Failed("ValueError", rawfiles[CurTask.raw_path])
    /\ UNCHANGED <<manifest, run, mergeVars, otherVars>>

\* Lines 146-147, 45-54: fetch_day is entered and reaches its retry loop.
FetchBegin ==
    /\ InLoop
    /\ ~SkipTask(rawfiles[CurTask.raw_path])
    /\ HasSensors(CurTask.location) /\ HasCoords(CurTask.location)
    /\ pc' = "fetch"
    /\ attempt' = 0
    /\ requests' = 0
    /\ slept' = 0
    /\ lastResponse' = "none"
    /\ fetchResult' = "running"
    /\ UNCHANGED <<manifest, rawfiles, idx, total, skipped, errors, errored,
                   log, run, mergeVars, otherVars>>

\* Lines 56-58, 148-153: the request succeeds, fetch_day returns, the long
\* table is written and the task is counted.
FetchWritten ==
    /\ InFetchLoop
    /\ \E resp \in Responses :
        /\ FetchBranch(resp) = "return"
        /\ requests' = requests + 1
        /\ lastResponse' = resp
        /\ fetchResult' = "returned"
        /\ rawfiles' = [rawfiles EXCEPT ![CurTask.raw_path] = json_to_long(resp)]
        /\ total' = total + 1
        /\ log' = Append(log, [kind |-> "wrote", exc |-> "none",
                               date |-> CurTask.date])
    /\ pc' = "loop"
    /\ idx' = idx + 1
    /\ UNCHANGED <<manifest, skipped, errors, errored, attempt, slept, run,
                   mergeVars, otherVars>>

\* Lines 56-58, 148-151, 103-110, 159-161: the request succeeds but to_parquet
\* fails; write_parquet raises RuntimeError.  The failure may come before the
\* file is created or after (a partial file stays).
FetchWriteFailed ==
    /\ InFetchLoop
    /\ \E resp \in Responses, file \in {"absent", "partial"} :
        /\ FetchBranch(resp) = "return"
        /\ requests' = requests + 1
        /\ lastResponse' = resp
        /\ fetchResult' = "returned"
        /\ Failed("RuntimeError", file)
    /\ UNCHANGED <<manifest, attempt, slept, run, mergeVars, otherVars>>

\* Lines 56-57, 59-60, 154-157: raise_for_status raises HTTPError, fetch_day
\* re-raises it at once.
FetchHTTPError ==
    /\ InFetchLoop
    /\ \E resp \in Responses :
        /\ FetchBranch(resp) = "raise_http"
        /\ requests' = requests + 1
        /\ lastResponse' = resp
    /\ fetchResult' = "HTTPError"
    /\ Failed("HTTPError", rawfiles[CurTask.raw_path])
    /\ UNCHANGED <<manifest, attempt, slept, run, mergeVars, otherVars>>

\* Lines 56, 61-64, 164-166: any other exception; sleep and go round the loop,
\* or re-raise it on the last attempt.
FetchTransportFailure ==
    /\ InFetchLoop
    /\ \E resp \in Responses :
        /\ FetchBranch(resp) = "retry"
        /\ requests' = requests + 1
        /\ lastResponse' = resp
    /\ IF LastAttempt(attempt)
       THEN /\ fetchResult' = "ConnectionError"
            /\ Failed("ConnectionError", rawfiles[CurTask.raw_path])
            /\ UNCHANGED <<attempt, slept>>
       ELSE /\ slept' = slept + RETRY_DELAY
            /\ attempt' = attempt + 1
            /\ UNCHANGED <<rawfiles, pc, idx, total, skipped, errors, errored,
                           log, fetchResult>>
    /\ UNCHANGED <<manifest, run, mergeVars, otherVars>>

\* Line 65: the for loop of fetch_day ran out and `return response.json()` is
\* next, with `response` bound only if some requests.get returned.
FetchLoopExhausted == pc = "fetch" /\ attempt >= MAX_RETRIES

\* Line 168: the loop is over, the summary is logged.
ScrapeDone ==
    /\ pc = "loop"
    /\ idx > Len(manifest.tasks)
    /\ pc' = "done"
    /\ UNCHANGED <<manifest, rawfiles, idx, total, skipped, errors, errored,
                   log, attempt, requests, slept, lastResponse, fetchResult,
                   run, mergeVars, otherVars>>

\* scrape() is started again on the same manifest; the raw files stay.
ScrapeAgain ==
    /\ pc = "done"
    /\ run < MaxRuns
    /\ run' = run + 1
    /\ pc' = "loop"
    /\ idx' = 1
    /\ total' = 0
    /\ skipped' = 0
    /\ errors' = 0
    /\ errored' = <<>>
    /\ log' = <<>>
    /\ attempt' = 0
    /\ requests' = 0
    /\ slept' = 0
    /\ lastResponse' = "none"
    /\ fetchResult' = "none"
    /\ UNCHANGED <<manifest, rawfiles, mergeVars, otherVars>>

IdleTransform ==
    /\ stored = [kind |-> "absent", cols |-> <<>>, rows |-> <<>>]
    /\ wide_new = [cols |-> <<>>, rows |-> <<>>]
    /\ merged = [cols |-> <<>>, rows |-> <<>>]
    /\ hist_before = [kind |-> "absent", cols |-> <<>>, rows |-> <<>>]
    /\ tpc = "idle"

\* transform() is not running.
IdleLoop ==
    /\ groups = <<>>
    /\ gidx = 1
    /\ gpc = "idle"
    /\ processed = 0
    /\ gskipped = 0
    /\ graw = <<>>
    /\ glog = <<>>

\* parametrize() is not running.
IdlePlan ==
    /\ config = [begin_date |-> 0, end_date |-> 0, time_increment |-> <<>>,
                 locations |-> <<>>, structured_output_dir |-> <<>>]
    /\ ppc = "idle"
    /\ step = 0
    /\ current = 0
    /\ dates = <<>>
    /\ tasks = <<>>
    /\ grouped = <<>>

\* long_to_wide is not running.
IdlePivot ==
    /\ df_long = <<>>
    /\ wide = [cols |-> <<>>, rows |-> <<>>]
    /\ vpc = "idle"

IdleOther == IdleLoop /\ IdlePlan /\ IdlePivot

InitScrape ==
    /\ manifest \in Manifests
    /\ rawfiles = [p \in RawPaths |-> "absent"]
    /\ run = 1
    /\ InitScrapeLocals
    /\ IdleTransform
    /\ IdleOther

NextScrape ==
    \/ ScrapeSkip
    \/ ScrapeUnknownLocation
    \/ FetchBegin
    \/ FetchWritten
    \/ FetchWriteFailed
    \/ FetchHTTPError
    \/ FetchTransportFailure
    \/ ScrapeDone
    \/ ScrapeAgain

SpecScrape == InitScrape /\ [][NextScrape]_vars

-----------------------------------------------------------------------------
(* ========================= transform stage ============================= *)
(* A table (DataFrame) is [cols |-> sequence of column labels,             *)
(*                         rows |-> sequence of rows],                     *)
(* a row being a function from the labels of cols to cell values.          *)
(* Timestamps are integers counted in ticks of 1/TicksPerMs millisecond.   *)

\* fixed_cols = ["timestamp", "location"]
FIXED_COLS == <<"timestamp", "location">>

\* The column labels of the model in Python's string order (what sorted() uses).
Alphabet == <<"dew_point", "dew_point_10m", "dew_point_2m", "humidity",
              "location", "temp", "timestamp">>

\* Sensor names (the values of sensor_name).
Sensors == {"humidity", "temp"}

\* The cell reindex() fills in for a column a table did not have.
NaN == -1

\* Resolution of the stored timestamps: ticks per millisecond.
TicksPerMs == 2

SetOf(seq) == { seq[i] : i \in DOMAIN seq }

Table(cols, rows) == [cols |-> cols, rows |-> rows]

\* DataFrame.empty: some axis has length 0.
IsEmpty(t) == Len(t.cols) = 0 \/ Len(t.rows) = 0

\* The elements of seq at the positions in keep, in order.
RECURSIVE Pick(_, _, _)
Pick(seq, keep, i) ==
    IF i > Len(seq) THEN <<>>
    ELSE (IF i \in keep THEN <<seq[i]>> ELSE <<>>) \o Pick(seq, keep, i + 1)

\* sorted(labels) of a list of labels (repeated labels stay repeated).
RECURSIVE SortedFrom(_, _)
SortedFrom(labels, k) ==
    IF k > Len(Alphabet) THEN <<>>
    ELSE SelectSeq(labels, LAMBDA c : c = Alphabet[k]) \o SortedFrom(labels, k + 1)

Sorted(labels) == SortedFrom(labels, 1)

\* sorted(s) of a set of labels.
SortedSet(s) == SelectSeq(Alphabet, LAMBDA c : c \in s)

\* df.loc[:, ~df.columns.duplicated()]: the first column of each label stays.
DropDuplicateLabels(t) ==
    Table(Pick(t.cols,
               { i \in DOMAIN t.cols : \A j \in 1..(i - 1) : t.cols[j] # t.cols[i] },
               1),
          t.rows)

\* df.reindex(columns=columns) of a table with unique labels: the columns
\* become `columns`; a label the table lacks is filled with NaN.
Reindex(t, columns) ==
    Table(columns,
          [ i \in DOMAIN t.rows |->
              [ c \in SetOf(columns) |->
                  IF c \in DOMAIN t.rows[i] THEN t.rows[i][c] ELSE NaN ] ])

\* df[labels]: for each label in turn, every column carrying it.
RECURSIVE SelectLabels(_, _, _)
SelectLabels(cols, labels, k) ==
    IF k > Len(labels) THEN <<>>
    ELSE SelectSeq(cols, LAMBDA c : c = labels[k]) \o SelectLabels(cols, labels, k + 1)

SelectColumns(t, labels) ==
    Table(SelectLabels(t.cols, labels, 1),
          [ i \in DOMAIN t.rows |-> [ c \in SetOf(labels) |-> t.rows[i][c] ] ])

\* pd.concat([a, b], ignore_index=True) of two tables with equal columns.
Concat(a, b) == Table(a.cols, a.rows \o b.rows)

\* Series.dt.round("ms"): the nearest whole millisecond, a tie going to the
\* even one.
RoundMs(t) ==
    LET lo == t \div TicksPerMs
        rest == t % TicksPerMs
    IN  IF 2 * rest < TicksPerMs THEN lo * TicksPerMs
        ELSE IF 2 * rest > TicksPerMs THEN (lo + 1) * TicksPerMs
        ELSE IF lo % 2 = 0 THEN lo * TicksPerMs
        ELSE (lo + 1) * TicksPerMs

\* hist["timestamp"] = hist["timestamp"].dt.round("ms")
RoundTimestamps(t) ==
    Table(t.cols,
          [ i \in DOMAIN t.rows |->
              [ t.rows[i] EXCEPT !["timestamp"] = RoundMs(@) ] ])

\* A file at a structured path: absent, unreadable (read_parquet or the
\* timestamp normalisation raises), or a table.
AbsentFile == [kind |-> "absent", cols |-> <<>>, rows |-> <<>>]
UnreadableFile == [kind |-> "unreadable", cols |-> <<>>, rows |-> <<>>]
TableFile(t) == [kind |-> "table", cols |-> t.cols, rows |-> t.rows]

\* Lines 91-112: the historical table merge_with_historical starts from.
ReadHistorical(new, file) ==
    IF file.kind = "table"
    THEN RoundTimestamps(DropDuplicateLabels(Table(file.cols, file.rows)))
    ELSE Table(new.cols, <<>>)

\* The (timestamp, location) key of a row.
Key(row) == <<row["timestamp"], row["location"]>>

\* The index orders sort_values("timestamp") may produce for the rows at the
\* positions in rest: ascending by timestamp.  The default kind, quicksort, is
\* not stable, so rows with equal timestamps may come out in any order.
RECURSIVE SortOrders(_, _)
SortOrders(rows, rest) ==
    IF rest = {} THEN {<<>>}
    ELSE LET first == { i \in rest :
                          \A j \in rest : rows[i]["timestamp"] <= rows[j]["timestamp"] }
         IN  UNION { { <<i>> \o s : s \in SortOrders(rows, rest \ {i}) } : i \in first }

\* combined.sort_values("timestamp"): the row sequences it may return.
SortValues(rows) ==
    { [ k \in DOMAIN order |-> rows[order[k]] ] :
        order \in SortOrders(rows, DOMAIN rows) }

\* drop_duplicates(subset=["timestamp", "location"], keep="last")
DropDuplicatesNone(rows) == rows

DropDuplicates(rows) ==
    Pick(rows,
         { i \in DOMAIN rows :
             \A j \in (i + 1)..Len(rows) : Key(rows[j]) # Key(rows[i]) },
         1)

\* Lines 123-125: the columns both tables are reindexed to.  In the source
\* `-` binds tighter than `|`: the fixed labels are removed from the new
\* table's labels only, so all_sensors holds the historical table's
\* "timestamp" and "location" too and all_columns repeats them.
AllColumns(hist, new) ==
    FIXED_COLS \o SortedSet(SetOf(hist.cols) \cup (SetOf(new.cols) \ SetOf(FIXED_COLS)))

\* Lines 116-128: the table `combined` before de-duplication.
CombinedNewOnly(hist, new) == new

Combined(hist, new) ==
    IF IsEmpty(hist) THEN new
    ELSE IF IsEmpty(new) THEN hist
    ELSE LET all_columns == AllColumns(hist, new)
         IN  Concat(Reindex(hist, all_columns), Reindex(new, all_columns))

\* Lines 138-140: fixed columns first, then the others sorted.
FinalColumns(cols) ==
    FIXED_COLS \o Sorted(SelectSeq(cols, LAMBDA c : c \notin SetOf(FIXED_COLS)))

\* merge_with_historical(new, structured_path): the tables it may return,
\* given the file at structured_path.
MergeWithHistorical(new, file) ==
    LET hist == ReadHistorical(new, file)
        combined == DropDuplicateLabels(Combined(hist, new))
    IN  { SelectColumns(Table(combined.cols, DropDuplicates(sorted)),
                        FinalColumns(combined.cols)) :
            sorted \in SortValues(combined.rows) }

-----------------------------------------------------------------------------
(* Inputs of the transform stage *)

\* Locations the rows of a table carry.
RowLocations == <<"amsterdam", "london">>

\* Timestamps on whole milliseconds, and all timestamps, in ticks.
WholeMs == { k * TicksPerMs : k \in 1..MaxTime }
Ticks == TicksPerMs..(MaxTime * TicksPerMs)

\* The row of a table with columns cols for key (t, l), every sensor cell v.
MkRow(cols, t, l, v) ==
    [ c \in SetOf(cols) |->
        CASE c = "timestamp" -> t
          [] c = "location" -> l
          [] OTHER -> v ]

\* Column lists: the fixed pair and a set of sensors in canonical order (as
\* long_to_wide and merge_with_historical emit them), and one list in the
\* opposite order.
CanonicalColumns == { FIXED_COLS \o SortedSet(S) : S \in SUBSET Sensors }
Reverse(seq) == [ i \in DOMAIN seq |-> seq[Len(seq) + 1 - i] ]
ReversedColumns == Reverse(FIXED_COLS \o SortedSet(Sensors))
ColumnLists == CanonicalColumns \cup {ReversedColumns}

\* The keys (t, l) for t in ts, as a sequence ascending by timestamp then by
\* location.
KeyList(ts) ==
    LET n == Len(RowLocations)
        sortedTs == SortSeq([ i \in 1..Cardinality(ts) |->
                                CHOOSE t \in ts : Cardinality({ u \in ts : u < t }) = i - 1 ],
                            LAMBDA a, b : a < b)
    IN  [ k \in 1..(Cardinality(ts) * n) |->
            <<sortedTs[((k - 1) \div n) + 1], RowLocations[((k - 1) % n) + 1]>> ]

\* Index sequences of length at most MaxRows into a list of m keys, ascending
\* (with repeats when dup is TRUE): one per multiset (or set) of keys.
IndexLists(m, dup) ==
    { s \in UNION { [1..n -> 1..m] : n \in 0..MaxRows } :
        \A i, j \in DOMAIN s : i < j => (s[i] < s[j] \/ (dup /\ s[i] = s[j])) }

\* Tables over the timestamps ts with every sensor cell v; rows ascending.
Tables(colLists, ts, v, dup) ==
    LET keys == KeyList(ts) IN
    { Table(cols, [ i \in DOMAIN s |-> MkRow(cols, keys[s[i]][1], keys[s[i]][2], v) ]) :
        cols \in colLists, s \in IndexLists(Len(keys), dup) }

\* The same tables with the rows in descending order.
Descending(t) == Table(t.cols, Reverse(t.rows))

\* Cell values: 0 in a file found at the structured path before the first
\* run, k in the wide table of run k.
OldValue == 0

\* SpecMerge: the new wide tables and the stored files handed to the merge.
\* A wide table has one row per key (long_to_wide pivots on the key), in
\* ascending order; a file found at the path may hold several rows of a key,
\* here in descending order.
NewValue == 1
MergeNewInputs == Tables(ColumnLists, WholeMs, NewValue, FALSE)
MergeStoredInputs ==
    {AbsentFile, UnreadableFile}
    \cup { TableFile(Descending(t)) : t \in Tables(ColumnLists, WholeMs, OldValue, TRUE) }

NoTable == Table(<<>>, <<>>)

IdleScrape ==
    /\ manifest = [tasks |-> <<>>, locations |-> {}]
    /\ rawfiles = [p \in RawPaths |-> "absent"]
    /\ InitScrapeLocals

\* merge_with_historical(wide_new, structured_path) is called on the inputs.
Merge ==
    /\ tpc = "ready"
    /\ merged' \in MergeWithHistorical(wide_new, stored)
    /\ tpc' = "merged"
    /\ UNCHANGED <<stored, wide_new, hist_before, run, scrapeVars, otherVars>>

InitMerge ==
    /\ wide_new \in MergeNewInputs
    /\ stored \in MergeStoredInputs
    /\ hist_before = stored
    /\ merged = NoTable
    /\ tpc = "ready"
    /\ run = 1
    /\ IdleScrape
    /\ IdleOther

NextMerge == Merge

SpecMerge == InitMerge /\ [][NextMerge]_vars

-----------------------------------------------------------------------------
(* Runs of transform() on one (location, month) group *)

\* The location of the group.
GroupLocation == "amsterdam"

\* write_structured can store the table: coerce_timestamps="ms" refuses a
\* timestamp that is not on a whole millisecond.
Storable(t) == \A i \in DOMAIN t.rows : t.rows[i]["timestamp"] % TicksPerMs = 0

\* The rows of a table that belong to the group.
OfGroup(t) == \A i \in DOMAIN t.rows : t.rows[i]["location"] = GroupLocation

\* The columns of the group: the historical file has "temp" only, the
\* workload now asks for "humidity" too.
HistoricalColumns == FIXED_COLS \o <<"temp">>
GroupColumns == FIXED_COLS \o <<"humidity", "temp">>

\* Line 186: what long_to_wide returns for the group's raw rows: at least one
\* row (line 181 skips the group otherwise), one row per hourly timestamp,
\* canonical columns.
TransformNewInputs ==
    { t \in Tables({GroupColumns}, WholeMs, NewValue, FALSE) :
        Len(t.rows) > 0 /\ OfGroup(t) }

\* The file at the structured path before the first run: none, an unreadable
\* one, or historical rows of the group (one per key) with timestamps of any
\* resolution.
TransformStoredInputs ==
    {AbsentFile, UnreadableFile}
    \cup { TableFile(t) : t \in { u \in Tables({HistoricalColumns}, Ticks,
                                                OldValue, FALSE) : OfGroup(u) } }

\* Lines 186-197: the group's wide table is merged with the stored table and
\* the result is written over the file.
TransformGroup ==
    /\ tpc \in {"start", "written", "write_failed"}
    /\ run <= MaxRuns
    /\ \E w \in TransformNewInputs :
        \E m \in MergeWithHistorical(w, stored) :
            /\ Storable(m)
            /\ wide_new' = w
            /\ merged' = m
            /\ stored' = TableFile(m)
    /\ hist_before' = stored
    /\ tpc' = "written"
    /\ run' = run + 1
    /\ UNCHANGED <<scrapeVars, otherVars>>

\* Lines 186-189, 198-199: write_structured raises and the error is logged.
\* A failure at lines 147-150 (mkdir, Table.from_pandas) leaves the file as it
\* was; a failure inside write_table (line 151) happens after the path was
\* opened for writing, and no file is left at it.
TransformWriteFailed ==
    /\ tpc \in {"start", "written", "write_failed"}
    /\ run <= MaxRuns
    /\ \E w \in TransformNewInputs :
        \E m \in MergeWithHistorical(w, stored) :
            /\ wide_new' = w
            /\ merged' = m
    /\ stored' \in {stored, AbsentFile}
    /\ hist_before' = stored
    /\ tpc' = "write_failed"
    /\ run' = run + 1
    /\ UNCHANGED <<scrapeVars, otherVars>>

InitTransform ==
    /\ stored \in TransformStoredInputs
    /\ hist_before = stored
    /\ wide_new = NoTable
    /\ merged = NoTable
    /\ tpc = "start"
    /\ run = 1
    /\ IdleScrape
    /\ IdleOther

NextTransform ==
    \/ TransformGroup
    \/ TransformWriteFailed

SpecTransform == InitTransform /\ [][NextTransform]_vars

-----------------------------------------------------------------------------
(* transform(): the loop over the (location, month) groups of a manifest *)

\* What Path(p) holds for a raw path of a group: no file, a file scrape wrote
\* ("rows", "empty"), a file a failed write left ("partial", unreadable), or a
\* readable file that lacks one of the four long-format columns ("malformed").
RawStates == {"absent", "rows", "empty", "partial", "malformed"}

\* The raw paths of a group: one per task of the group, at least one.
RawLists == UNION { [1..n -> RawStates] : n \in 1..MaxDates }

\* read_raw_long: absent paths are skipped, unreadable files are logged and
\* skipped, the frames read are concatenated (the columns are the union of the
\* frames' columns) and a column missing from all of them raises ValueError.
\* The result is "ValueError", or the row-count class of the long table.
read_raw_longStrict(paths) ==
    IF \E i \in DOMAIN paths : paths[i] = "absent" THEN "ValueError"
    ELSE IF \A i \in DOMAIN paths : paths[i] \in {"partial", "malformed"}
         THEN (IF \E i \in DOMAIN paths : paths[i] = "malformed"
               THEN "ValueError" ELSE "empty")
    ELSE IF \E i \in DOMAIN paths : paths[i] \in {"rows", "malformed"}
         THEN "rows"
         ELSE "empty"

read_raw_long(paths) ==
    LET frames == SelectSeq(paths, LAMBDA f : f \in {"rows", "empty", "malformed"})
    IN  IF frames = <<>> THEN "empty"
        ELSE IF \A i \in DOMAIN frames : frames[i] = "malformed" THEN "ValueError"
        ELSE IF \E i \in DOMAIN frames : frames[i] \in {"rows", "malformed"}
             THEN "rows"
             ELSE "empty"

\* `for (location, yyyymm), info in groups.items()`: the loop is at a group.
InGroupLoop == gpc = "loop" /\ gidx <= Len(groups)

\* Lines 165-172: the manifest is loaded; with no tasks transform returns.
TransformBegin ==
    /\ gpc = "start"
    /\ gpc' = IF groups = <<>> THEN "done" ELSE "loop"
    /\ UNCHANGED <<groups, gidx, processed, gskipped, graw, glog>>
    /\ UNCHANGED <<scrapeVars, mergeVars, run, planVars, pivotVars>>

\* Lines 180-184: no raw rows for the group; it is counted as skipped.
GroupSkipped ==
    /\ InGroupLoop
    /\ \E raw \in RawLists :
        /\ read_raw_long(raw) = "empty"
        /\ graw' = raw
    /\ gskipped' = gskipped + 1
    /\ glog' = Append(glog, "skipped")
    /\ gidx' = gidx + 1
    /\ UNCHANGED <<groups, gpc, processed>>
    /\ UNCHANGED <<scrapeVars, mergeVars, run, planVars, pivotVars>>

\* Line 180 (60): read_raw_long raises ValueError; the call is not inside a
\* try statement, so the exception leaves transform().
GroupMalformed ==
    /\ InGroupLoop
    /\ \E raw \in RawLists :
        /\ read_raw_long(raw) = "ValueError"
        /\ graw' = raw
    /\ gpc' = "aborted"
    /\ UNCHANGED <<groups, gidx, processed, gskipped, glog>>
    /\ UNCHANGED <<scrapeVars, mergeVars, run, planVars, pivotVars>>

\* Lines 186-187: long_to_wide or merge_with_historical raises (for example
\* sort_values on timestamps it cannot compare); neither call is inside the
\* try statement, so the exception leaves transform().
GroupMergeRaises ==
    /\ InGroupLoop
    /\ \E raw \in RawLists :
        /\ read_raw_long(raw) = "rows"
        /\ graw' = raw
    /\ gpc' = "aborted"
    /\ UNCHANGED <<groups, gidx, processed, gskipped, glog>>
    /\ UNCHANGED <<scrapeVars, mergeVars, run, planVars, pivotVars>>

\* Lines 186-197: the group is merged and its structured file written.
GroupWritten ==
    /\ InGroupLoop
    /\ \E raw \in RawLists :
        /\ read_raw_long(raw) = "rows"
        /\ graw' = raw
    /\ groups' = [groups EXCEPT ![gidx] = "written"]
    /\ processed' = processed + 1
    /\ glog' = Append(glog, "wrote")
    /\ gidx' = gidx + 1
    /\ UNCHANGED <<gpc, gskipped>>
    /\ UNCHANGED <<scrapeVars, mergeVars, run, planVars, pivotVars>>

\* Lines 186-189, 198-199: write_structured raises; the error is logged and
\* the loop goes on.  The file stays as it was or no file is left at the path.
GroupWriteFailed ==
    /\ InGroupLoop
    /\ \E raw \in RawLists :
        /\ read_raw_long(raw) = "rows"
        /\ graw' = raw
    /\ \E file \in {groups[gidx], "absent"} :
        groups' = [groups EXCEPT ![gidx] = file]
    /\ glog' = Append(glog, "write_failed")
    /\ gidx' = gidx + 1
    /\ UNCHANGED <<gpc, processed, gskipped>>
    /\ UNCHANGED <<scrapeVars, mergeVars, run, planVars, pivotVars>>

\* Line 201: the loop is over, the summary is logged.
TransformDone ==
    /\ gpc = "loop"
    /\ gidx > Len(groups)
    /\ gpc' = "done"
    /\ UNCHANGED <<groups, gidx, processed, gskipped, graw, glog>>
    /\ UNCHANGED <<scrapeVars, mergeVars, run, planVars, pivotVars>>

\* The groups of a manifest, each with the state of its structured file.
GroupLists == UNION { [1..n -> {"absent", "old"}] : n \in 0..MaxGroups }

InitLoop ==
    /\ groups \in GroupLists
    /\ gidx = 1
    /\ gpc = "start"
    /\ processed = 0
    /\ gskipped = 0
    /\ graw = <<>>
    /\ glog = <<>>
    /\ run = 1
    /\ IdleScrape
    /\ IdleTransform
    /\ IdlePlan
    /\ IdlePivot

NextLoop ==
    \/ TransformBegin
    \/ GroupSkipped
    \/ GroupMalformed
    \/ GroupMergeRaises
    \/ GroupWritten
    \/ GroupWriteFailed
    \/ TransformDone

SpecLoop == InitLoop /\ [][NextLoop]_vars

-----------------------------------------------------------------------------
(* ============================ long_to_wide ============================= *)
(* A long table is a sequence of rows [timestamp, location, sensor_name,   *)
(* value].  The wide table long_to_wide returns is                         *)
(* [cols |-> labels, rows |-> rows], a row being the sequence of its       *)
(* cells in column order (two columns may carry one label).                *)

\* aggfunc="last" of a group: GroupBy.last takes the last value that is not
\* null, and null when the group has none.
GroupByLast(values) ==
    LET valid == SelectSeq(values, LAMBDA v : v # NaN)
    IN  IF valid = <<>> THEN NaN ELSE valid[Len(valid)]

\* The values of the rows of a (timestamp, location, sensor_name) group, in
\* input order.
GroupValues(df, ts, loc, sn) ==
    LET group == SelectSeq(df, LAMBDA r : /\ r.timestamp = ts
                                          /\ r.location = loc
                                          /\ r.sensor_name = sn)
    IN  [ i \in DOMAIN group |-> group[i].value ]

\* Line 86: rename(columns={'dew_point_2m': 'dew_point'})
Rename(label) == IF label = "dew_point_2m" THEN "dew_point" ELSE label

\* The (timestamp, location) pairs of a set, ascending, as reset_index lists
\* the sorted index.
RECURSIVE IndexFrom(_, _)
IndexFrom(pairs, ts) ==
    IF \A p \in pairs : p[1] < ts THEN <<>>
    ELSE SelectSeq([ i \in DOMAIN RowLocations |-> <<ts, RowLocations[i]>> ],
                   LAMBDA p : p \in pairs)
         \o IndexFrom(pairs, ts + 1)

\* long_to_wide.  pivot_table groups the rows by (timestamp, location,
\* sensor_name), aggregates each group with "last", drops the groups whose
\* aggregate is null (dropna=True), and unstacks sensor_name: one row per
\* (timestamp, location) left, one column per sensor left, in sorted order.
\* Then the columns are put in the order fixed + sorted sensors and
\* dew_point_2m is renamed.
long_to_wide(df) ==
    IF df = <<>> THEN [cols |-> FIXED_COLS, rows |-> <<>>]
    ELSE
    LET agg(k) == GroupByLast(GroupValues(df, k[1], k[2], k[3]))
        groupKeys == { <<df[i].timestamp, df[i].location, df[i].sensor_name>> :
                         i \in DOMAIN df }
        kept == { k \in groupKeys : agg(k) # NaN }
        sensor_cols == SortedSet({ k[3] : k \in kept })
        index == IndexFrom({ <<k[1], k[2]>> : k \in kept }, 0)
        cells(p) == [ j \in DOMAIN sensor_cols |->
                        IF <<p[1], p[2], sensor_cols[j]>> \in kept
                        THEN agg(<<p[1], p[2], sensor_cols[j]>>) ELSE NaN ]
    IN  [cols |-> FIXED_COLS \o [ j \in DOMAIN sensor_cols |-> Rename(sensor_cols[j]) ],
         rows |-> [ i \in DOMAIN index |-> index[i] \o cells(index[i]) ]]

\* The sensor names, timestamps and values of the raw rows.
PivotSensors == {"dew_point", "dew_point_10m", "dew_point_2m", "temp"}
PivotTimes == {1, 2}
PivotValues == {NaN, 1, 2}

LongRows ==
    [timestamp : PivotTimes, location : SetOf(RowLocations),
     sensor_name : PivotSensors, value : PivotValues]

\* What read_raw_long returns: raw rows in file order.
LongTables == UNION { [1..n -> LongRows] : n \in 0..MaxRows }

\* Line 186: long_to_wide is called.
Pivot ==
    /\ vpc = "ready"
    /\ wide' = long_to_wide(df_long)
    /\ vpc' = "pivoted"
    /\ UNCHANGED df_long
    /\ UNCHANGED <<scrapeVars, mergeVars, run, loopVars, planVars>>

InitPivot ==
    /\ df_long \in LongTables
    /\ wide = [cols |-> <<>>, rows |-> <<>>]
    /\ vpc = "ready"
    /\ run = 1
    /\ IdleScrape
    /\ IdleTransform
    /\ IdleLoop
    /\ IdlePlan

NextPivot == Pivot

SpecPivot == InitPivot /\ [][NextPivot]_vars

-----------------------------------------------------------------------------
(* ============================ planner ================================== *)
(* A string is a sequence of one-character strings.  A date is the number  *)
(* of days since the first day of year 2024 of a calendar whose months     *)
(* have DaysPerMonth days and whose years have MonthsPerYear months.       *)

DigitChars == <<"0", "1", "2", "3", "4", "5", "6", "7", "8", "9">>

IsDigit(c) == \E k \in DOMAIN DigitChars : DigitChars[k] = c

\* int(c) of a digit character.
DigitValue(c) == (CHOOSE k \in DOMAIN DigitChars : DigitChars[k] = c) - 1

\* str(n) of a natural number.
RECURSIVE Digits(_)
Digits(n) == IF n < 10 THEN <<DigitChars[n + 1]>>
             ELSE Digits(n \div 10) \o <<DigitChars[(n % 10) + 1]>>

\* The number zero-padded to two digits, as %m and %d print it.
Pad2(n) == IF n < 10 THEN <<"0">> \o Digits(n) ELSE Digits(n)

\* int(s) of a string of digits.
RECURSIVE IntOf(_)
IntOf(s) == IF s = <<>> THEN 0
            ELSE 10 * IntOf(SubSeq(s, 1, Len(s) - 1)) + DigitValue(s[Len(s)])

\* The character at position i of s, "" past its end.
At(s, i) == IF i \in DOMAIN s THEN s[i] ELSE ""

\* The first position from i on that holds no digit.
RECURSIVE DigitsEnd(_, _)
DigitsEnd(s, i) == IF IsDigit(At(s, i)) THEN DigitsEnd(s, i + 1) ELSE i

\* One optional group (?:(\d+)X)? of _DURATION_RE tried at position i: the
\* captured digits (<<>> for None) and the position after the group.
Field(s, i, designator) ==
    LET j == DigitsEnd(s, i)
    IN  IF j > i /\ At(s, j) = designator
        THEN [value |-> SubSeq(s, i, j - 1), matched |-> TRUE, next |-> j + 1]
        ELSE [value |-> <<>>, matched |-> FALSE, next |-> i]

\* _DURATION_RE.match(duration): the groupdict of the match, or no match.
\*   ^[+-]?P(?:(\d+)D)?T(?:(\d+)H)?(?:(\d+)M)?(?:(\d+)S)?$
\* The sign is matched and not captured, the T is not optional, and $ also
\* matches before a newline that ends the string.
DurationMatch(s) ==
    LET i1 == IF At(s, 1) \in {"+", "-"} THEN 2 ELSE 1
        i2 == i1 + 1
        d  == Field(s, i2, "D")
        i3 == d.next + 1
        h  == Field(s, i3, "H")
        m  == Field(s, h.next, "M")
        sec == Field(s, m.next, "S")
        e  == sec.next
    IN  IF /\ At(s, i1) = "P"
           /\ At(s, d.next) = "T"
           /\ \/ e = Len(s) + 1
              \/ e = Len(s) /\ s[e] = "\n"
        THEN [matched |-> TRUE, days |-> d, hours |-> h, minutes |-> m,
              seconds |-> sec]
        ELSE [matched |-> FALSE, days |-> d, hours |-> h, minutes |-> m,
              seconds |-> sec]

\* `int(v) if v is not None else 0`
Part(f) == IF f.matched THEN IntOf(f.value) ELSE 0

\* timedelta(days=, hours=, minutes=, seconds=), counted in seconds.
timedelta(days, hours, minutes, seconds) ==
    days * 86400 + hours * 3600 + minutes * 60 + seconds

\* parse_iso8601_duration: the timedelta in seconds, or the error raised.
parse_iso8601_duration(duration) ==
    LET match == DurationMatch(duration)
        delta == timedelta(Part(match.days), Part(match.hours),
                           Part(match.minutes), Part(match.seconds))
    IN  IF ~match.matched THEN [error |-> "invalid", delta |-> 0]
        ELSE IF delta <= 0 THEN [error |-> "not_positive", delta |-> delta]
        ELSE [error |-> "none", delta |-> delta]

\* `while current <= last`
InRangeExclusive(cur, last) == cur < last

InRange(cur, last) == cur <= last

\* (datetime.combine(current, datetime.min.time()) + step).date(): midnight of
\* the day plus the step, cut back to its date.
NextDate(cur, delta) == (cur * 86400 + delta) \div 86400

\* The calendar fields of a date.
YearOf(d) == 2024 + d \div (DaysPerMonth * MonthsPerYear)
MonthOf(d) == ((d \div DaysPerMonth) % MonthsPerYear) + 1
DayOf(d) == (d % DaysPerMonth) + 1

\* date(year, month, day)
DateOf(y, m, dd) ==
    (y - 2024) * DaysPerMonth * MonthsPerYear + (m - 1) * DaysPerMonth + (dd - 1)

\* d.isoformat(): "YYYY-MM-DD"
isoformat(d) ==
    Digits(YearOf(d)) \o <<"-">> \o Pad2(MonthOf(d)) \o <<"-">> \o Pad2(DayOf(d))

\* datetime.fromisoformat(s) of a "YYYY-MM-DD" string.
fromisoformat(s) ==
    DateOf(IntOf(SubSeq(s, 1, 4)), IntOf(SubSeq(s, 6, 7)), IntOf(SubSeq(s, 9, 10)))

\* d.replace(day=1)
FirstOfMonth(d) == DateOf(YearOf(d), MonthOf(d), 1)

\* d.strftime(fmt) of a format given as a list of pieces: a directive %Y, %m
\* or %d is replaced by the field, any other piece is copied.
RECURSIVE strftime(_, _)
strftime(d, fmt) ==
    IF fmt = <<>> THEN <<>>
    ELSE (CASE fmt[1] = "%Y" -> Digits(YearOf(d))
            [] fmt[1] = "%m" -> Pad2(MonthOf(d))
            [] fmt[1] = "%d" -> Pad2(DayOf(d))
            [] OTHER -> <<fmt[1]>>) \o strftime(d, Tail(fmt))

\* materialize_path: {location_name} is replaced, then the date is formatted.
materialize_path(template, location_name, d) ==
    strftime(d, [i \in DOMAIN template |->
                    IF template[i] = "{location_name}" THEN location_name
                    ELSE template[i]])

\* raw_output_dir of the workload.
RawTemplate == <<"raw/", "{location_name}", "/", "%Y", "%m", "%d">>

\* Lines 103-117: the tasks, locations outer, dates inner.
PlanTasks(locs, ds, structured_template) ==
    [ k \in 1..(Len(locs) * Len(ds)) |->
        LET loc == locs[((k - 1) \div Len(ds)) + 1]
            d == ds[((k - 1) % Len(ds)) + 1]
        IN  [location |-> loc,
             date |-> isoformat(d),
             raw_path |-> materialize_path(RawTemplate, loc, d),
             structured_path |->
                 materialize_path(structured_template, loc, FirstOfMonth(d))] ]

\* The cap on the length of build_date_range.dates: more dates than any range
\* of the workload needs.
MaxPlanDates == MaxDay + 2

\* Line 98: the time increment is not a positive duration of the grammar;
\* parse_iso8601_duration raises ValueError and parametrize() ends with it.
PlanRejected ==
    /\ ppc = "parse"
    /\ parse_iso8601_duration(config.time_increment).error # "none"
    /\ ppc' = "rejected"
    /\ UNCHANGED <<config, step, current, dates, tasks, grouped>>
    /\ UNCHANGED <<scrapeVars, mergeVars, run, loopVars, pivotVars>>

\* Lines 98-99, 61-63: the step is parsed and build_date_range entered.
PlanParsed ==
    /\ ppc = "parse"
    /\ parse_iso8601_duration(config.time_increment).error = "none"
    /\ step' = parse_iso8601_duration(config.time_increment).delta
    /\ current' = config.begin_date
    /\ dates' = <<>>
    /\ ppc' = "range"
    /\ UNCHANGED <<config, tasks, grouped>>
    /\ UNCHANGED <<scrapeVars, mergeVars, run, loopVars, pivotVars>>

\* Lines 64-66: one round of the while loop.
RangeAppend ==
    /\ ppc = "range"
    /\ InRange(current, config.end_date)
    /\ Len(dates) < MaxPlanDates
    /\ dates' = Append(dates, current)
    /\ current' = NextDate(current, step)
    /\ UNCHANGED <<config, ppc, step, tasks, grouped>>
    /\ UNCHANGED <<scrapeVars, mergeVars, run, loopVars, pivotVars>>

\* Lines 67, 103-117: build_date_range returns and the tasks are built.
RangeReturn ==
    /\ ppc = "range"
    /\ ~InRange(current, config.end_date)
    /\ tasks' = PlanTasks(config.locations, dates, config.structured_output_dir)
    /\ ppc' = "planned"
    /\ UNCHANGED <<config, step, current, dates, grouped>>
    /\ UNCHANGED <<scrapeVars, mergeVars, run, loopVars, pivotVars>>

\* `(location, yyyymm)`: the key of the group of a task.
GroupKeyLocationOnly(t) == <<t.location, <<>>>>

GroupKey(t) == <<t.location, strftime(fromisoformat(t.date), <<"%Y", "%m">>)>>

\* The loop of group_tasks_by_location_month from task k on: the raw path is
\* appended to the group of the task's key and the structured path is set
\* when the group has none yet.
RECURSIVE GroupFrom(_, _, _)
GroupFrom(ts, k, acc) ==
    IF k > Len(ts) THEN acc
    ELSE LET t == ts[k]
             key == GroupKey(t)
             old == IF key \in DOMAIN acc THEN acc[key]
                    ELSE [raw_paths |-> <<>>, structured_path |-> <<>>]
             new == [raw_paths |-> Append(old.raw_paths, t.raw_path),
                     structured_path |->
                         IF old.structured_path = <<>> THEN t.structured_path
                         ELSE old.structured_path]
         IN  GroupFrom(ts, k + 1,
                       [x \in DOMAIN acc \cup {key} |->
                           IF x = key THEN new ELSE acc[x]])

group_tasks_by_location_month(ts) == GroupFrom(ts, 1, <<>>)

\* transform(), line 172: the tasks of the manifest are grouped.
PlanGrouped ==
    /\ ppc = "planned"
    /\ grouped' = group_tasks_by_location_month(tasks)
    /\ ppc' = "grouped"
    /\ UNCHANGED <<config, step, current, dates, tasks>>
    /\ UNCHANGED <<scrapeVars, mergeVars, run, loopVars, pivotVars>>

None == -1

\* The text of a duration: sign, then P, the fields that are not None with
\* their designators, and T before the time fields when hasT.
DurationText(sign, d, hasT, h, m, sec) ==
    sign \o <<"P">>
         \o (IF d = None THEN <<>> ELSE Digits(d) \o <<"D">>)
         \o (IF hasT THEN <<"T">> ELSE <<>>)
         \o (IF h = None THEN <<>> ELSE Digits(h) \o <<"H">>)
         \o (IF m = None THEN <<>> ELSE Digits(m) \o <<"M">>)
         \o (IF sec = None THEN <<>> ELSE Digits(sec) \o <<"S">>)

\* Values of time_increment: durations with and without sign, days and time
\* fields, shorter and longer than a day, and strings that are no duration.
TimeIncrements ==
    { DurationText(sign, d, hasT, h, m, None) :
        sign \in {<<>>, <<"+">>, <<"-">>}, d \in {None, 0, 1, 2},
        hasT \in BOOLEAN, h \in {None, 0, 12, 36}, m \in {None, 0} }
    \cup { <<>>, <<"1", "D">>, <<"P", "1", "D", "T", "\n">>,
           <<"P", "T", "6", "0", "S">>, <<"P", "1", "D", "T", "x">> }

\* Values of structured_output_dir.
StructuredTemplates ==
    { <<"structured/", "{location_name}", "/", "%Y", "%m">>,
      <<"structured/", "%Y", "-", "%m", "-", "%d">> }

\* The validated workload.json: end_date is not before begin_date.
Workloads ==
    { [begin_date |-> b, end_date |-> e, time_increment |-> t,
       locations |-> locs, structured_output_dir |-> st] :
        b \in 0..MaxDay, e \in 0..MaxDay, t \in TimeIncrements,
        locs \in {<<"amsterdam">>, <<"amsterdam", "london">>},
        st \in StructuredTemplates }

InitPlan ==
    /\ config \in { w \in Workloads : w.begin_date <= w.end_date }
    /\ ppc = "parse"
    /\ step = 0
    /\ current = 0
    /\ dates = <<>>
    /\ tasks = <<>>
    /\ grouped = <<>>
    /\ run = 1
    /\ IdleScrape
    /\ IdleTransform
    /\ IdleLoop
    /\ IdlePivot

NextPlan ==
    \/ PlanRejected
    \/ PlanParsed
    \/ RangeAppend
    \/ RangeReturn
    \/ PlanGrouped

SpecPlan == InitPlan /\ [][NextPlan]_vars

-----------------------------------------------------------------------------
(* ==================== fetch stage: the claims ========================== *)

\* C6. Fetch idempotence: whenever the loop of scrape reaches a task whose raw
\* path holds a file, the step it takes issues no request (fetch_day is not
\* entered), leaves every raw file as it is and counts the task as skipped and
\* as nothing else; this is an action property, so it holds in every run.
C6_SkipIssuesNoRequest ==
    [][ (InLoop /\ Exists(rawfiles[CurTask.raw_path]))
        => /\ pc' = "loop"
           /\ requests' = requests
           /\ rawfiles' = rawfiles
           /\ skipped' = skipped + 1
           /\ total' = total
           /\ errors' = errors
           /\ idx' = idx + 1 ]_vars

\* A second run that found a file for every task and issued no request.
C6_Witness ==
    /\ run = 2
    /\ pc = "done"
    /\ skipped = Len(manifest.tasks)
    /\ requests = 0
    /\ \E k \in DOMAIN manifest.tasks :
           rawfiles[manifest.tasks[k].raw_path] = "rows"

\* C7. Bounded retry: a call of fetch_day issues at most MAX_RETRIES = 3
\* requests; while it is in its loop after k transport failures it has slept k
\* times RETRY_DELAY and the next request can be issued; it ends with the
\* transport failure raised exactly when the third request failed that way,
\* and the statement after the loop (which would return a value) is never
\* reached.
C7_BoundedRetry ==
    /\ requests <= MAX_RETRIES
    /\ ~FetchLoopExhausted
    /\ pc = "fetch" =>
          /\ requests = attempt
          /\ slept = RETRY_DELAY * attempt
          /\ fetchResult = "running"
          /\ ENABLED FetchTransportFailure
          /\ ENABLED FetchWritten
    /\ fetchResult = "ConnectionError" =>
          /\ requests = MAX_RETRIES
          /\ slept = RETRY_DELAY * (MAX_RETRIES - 1)
          /\ lastResponse = "transport"
    /\ (requests = MAX_RETRIES /\ lastResponse = "transport") =>
          fetchResult = "ConnectionError"

\* Three transport failures in a row: the third is raised.
C7_Witness ==
    /\ fetchResult = "ConnectionError"
    /\ requests = 3
    /\ slept = 4
    /\ pc = "loop"

\* C8. A definitive HTTP error is not retried: once a request of fetch_day
\* ended in an HTTP error, on whichever attempt, fetch_day has raised
\* HTTPError, scrape is out of the fetch (no further request for the task),
\* and the task is recorded as failed with its date.
C8_HTTPErrorNotRetried ==
    lastResponse = "http" =>
        /\ pc # "fetch"
        /\ fetchResult = "HTTPError"
        /\ requests = attempt + 1
        /\ \E k \in DOMAIN log :
              /\ log[k].kind = "error"
              /\ log[k].exc = "HTTPError"
              /\ \E e \in DOMAIN errored : errored[e] = log[k].date

\* An HTTP error on the second attempt, after one transport failure.
C8_Witness ==
    /\ lastResponse = "http"
    /\ requests = 2
    /\ slept = RETRY_DELAY

\* C9. Failure isolation: scrape is never aborted by a task; the log holds one
\* entry per task visited, in manifest order; the three counters add up to the
\* number of tasks visited and, at the end, to the number of tasks.
C9_FailureIsolation ==
    /\ pc # "aborted"
    /\ total + skipped + errors = Len(log)
    /\ \A k \in DOMAIN log : log[k].date = manifest.tasks[k].date
    /\ pc \in {"loop", "fetch"} => Len(log) = idx - 1
    /\ pc = "done" =>
          /\ idx = Len(manifest.tasks) + 1
          /\ total + skipped + errors = Len(manifest.tasks)

\* A failed task followed by a later task that was fetched and written, in a
\* run with failures of three kinds.
C9_Witness ==
    /\ pc = "done"
    /\ \E j, k \in DOMAIN log :
          /\ j < k
          /\ log[j].kind = "error"
          /\ log[k].kind = "wrote"
    /\ \E k \in DOMAIN log : log[k].kind = "error" /\ log[k].exc = "ValueError"

\* The dates of the tasks the run logged as failed, in order.
FailedDates ==
    LET failed == SelectSeq(log, LAMBDA e : e.kind = "error")
    IN  [k \in 1..Len(failed) |-> failed[k].date]

\* C10. When scrape ends, the reported list of failed dates holds the date of
\* every failed task, so its length is the error count.
C10_ErroredListsEveryFailure ==
    pc = "done" => (errored = FailedDates /\ Len(errored) = errors)

-----------------------------------------------------------------------------
(* ==================== transform stage: the claims ====================== *)

Keys(rows) == { Key(rows[i]) : i \in DOMAIN rows }

SensorsOf(cols) == SetOf(cols) \ SetOf(FIXED_COLS)

\* The positions of the rows of a table that carry key k.
RowsWithKey(rows, k) == { i \in DOMAIN rows : Key(rows[i]) = k }

\* C1. Merge correctness: when the stored table and the new table both hold
\* rows, the merged table has one row per key of either, and for a key both
\* hold, that row carries the new row's value in every sensor column of the
\* new table (so {T1,T2} merged with {T2,T3} gives 3 rows, T2 the new one).
C1_NewRowWins ==
    (tpc = "merged" /\ stored.kind = "table"
        /\ Len(stored.rows) > 0 /\ Len(wide_new.rows) > 0) =>
        /\ \A k \in Keys(stored.rows) \cup Keys(wide_new.rows) :
              Cardinality(RowsWithKey(merged.rows, k)) = 1
        /\ \A j \in DOMAIN wide_new.rows :
              Key(wide_new.rows[j]) \in Keys(stored.rows) =>
                  \A i \in RowsWithKey(merged.rows, Key(wide_new.rows[j])) :
                      \A c \in SensorsOf(wide_new.cols) :
                          merged.rows[i][c] = wide_new.rows[j][c]

\* C2. Merge idempotence: a run that merges the same wide table as the run
\* before it, whose result was written, returns the same rows and columns.
C2_MergeIdempotent ==
    [][ (tpc = "written" /\ tpc' = "written" /\ wide_new' = wide_new)
        => /\ merged'.cols = merged.cols
           /\ Len(merged'.rows) = Len(merged.rows)
           /\ SetOf(merged'.rows) = SetOf(merged.rows) ]_vars

\* C3. The returned table has no two rows with the same (timestamp, location)
\* and its columns are timestamp, location, then its sensor columns in
\* alphabetical order, each label once; every row has a cell per column.
C3_UniqueKeysCanonicalColumns ==
    tpc = "merged" =>
        /\ \A i, j \in DOMAIN merged.rows :
              i # j => Key(merged.rows[i]) # Key(merged.rows[j])
        /\ merged.cols = FIXED_COLS \o SortedSet(SensorsOf(merged.cols))
        /\ \A i \in DOMAIN merged.rows : DOMAIN merged.rows[i] = SetOf(merged.cols)
        /\ Keys(merged.rows) \subseteq Keys(stored.rows) \cup Keys(wide_new.rows)

\* A stored table in the opposite column order with two rows of one key,
\* merged with a new table that holds that key too.
C3_Witness ==
    /\ tpc = "merged"
    /\ stored.kind = "table"
    /\ stored.cols = ReversedColumns
    /\ Len(stored.rows) = 2
    /\ Key(stored.rows[1]) = Key(stored.rows[2])
    /\ Key(stored.rows[1]) \in Keys(wide_new.rows)
    /\ Len(wide_new.rows) = 2
    /\ wide_new.cols = FIXED_COLS \o <<"temp">>
    /\ Len(merged.rows) = 2
    /\ Len(merged.cols) = 4

\* C4 as stated. After a run that wrote, on a partition whose file was
\* readable, every key of the file before the run and every key of the run's
\* wide table is a key of the written table.
C4_NoKeyLost ==
    (tpc = "written" /\ hist_before.kind = "table") =>
        (Keys(hist_before.rows) \cup Keys(wide_new.rows)) \subseteq Keys(stored.rows)

\* The key of a stored row once line 106 rounded its timestamp.
RoundedKey(k) == <<RoundMs(k[1]), k[2]>>

\* C4 as amended. After a run that wrote, on a partition whose file was
\* readable, every key of the file before the run, with its timestamp rounded
\* to the millisecond, and every key of the run's wide table is a key of the
\* written table.  For a file with whole-millisecond timestamps (every file
\* transform wrote) the rounding changes nothing, so no key of it is lost.
C4_NoRoundedKeyLost ==
    /\ (tpc = "written" /\ hist_before.kind = "table") =>
          ({ RoundedKey(k) : k \in Keys(hist_before.rows) } \cup Keys(wide_new.rows))
              \subseteq Keys(stored.rows)
    /\ (tpc = "written" /\ hist_before.kind = "table" /\ Storable(hist_before)) =>
          Keys(hist_before.rows) \subseteq Keys(stored.rows)

\* The second run wrote, over a file of two rows, a wide table with a key the
\* file did not have and a key it had.
C4_Witness ==
    /\ tpc = "written"
    /\ run = 3
    /\ hist_before.kind = "table"
    /\ Len(hist_before.rows) = 2
    /\ Keys(wide_new.rows) \ Keys(hist_before.rows) # {}
    /\ Keys(wide_new.rows) \cap Keys(hist_before.rows) # {}
    /\ Keys(hist_before.rows) \ Keys(wide_new.rows) # {}
    /\ Len(stored.rows) = 3

\* C5. Schema union: the sensor columns of the merged table are those of the
\* stored table and those of the new table; a row whose key only the stored
\* table has is null in the columns only the new table has, and conversely.
C5_SchemaUnion ==
    (tpc = "merged" /\ stored.kind = "table") =>
        /\ SensorsOf(merged.cols) = SensorsOf(stored.cols) \cup SensorsOf(wide_new.cols)
        /\ \A i \in DOMAIN merged.rows :
              /\ Key(merged.rows[i]) \notin Keys(wide_new.rows) =>
                    \A c \in SensorsOf(wide_new.cols) \ SensorsOf(stored.cols) :
                        merged.rows[i][c] = NaN
              /\ Key(merged.rows[i]) \notin Keys(stored.rows) =>
                    \A c \in SensorsOf(stored.cols) \ SensorsOf(wide_new.cols) :
                        merged.rows[i][c] = NaN

-----------------------------------------------------------------------------
(* ================ transform(): the loop, the claims ==================== *)

\* C11. Failure isolation in the transform stage: no group aborts transform();
\* when the loop is over every group of the manifest was handled (written,
\* skipped or its failure logged).
C11_GroupFailureIsolated ==
    /\ gpc # "aborted"
    /\ gpc = "done" => Len(glog) = Len(groups)

-----------------------------------------------------------------------------
(* ========================= planner: the claims ========================= *)

\* ceil(a / b) of natural numbers, b > 0.
CeilDiv(a, b) == (a + b - 1) \div b

\* The dates of the tasks of the k-th location, in task order.
TaskDatesOf(k) ==
    [ i \in 1..Len(dates) |-> tasks[(k - 1) * Len(dates) + i].date ]

\* C12 as stated. The planned date sequence has ceil((end-begin)/step)+1 dates
\* per location, is strictly ascending and starts at begin.
C12_CeilDateCount ==
    ppc = "planned" =>
        /\ Len(dates) = CeilDiv((config.end_date - config.begin_date) * 86400, step) + 1
        /\ \A i \in 1..(Len(dates) - 1) : dates[i] < dates[i + 1]
        /\ dates[1] = config.begin_date
        /\ Len(tasks) = Len(config.locations) * Len(dates)

\* C12 as amended. Every date sequence the planner returns has
\* floor((end-begin)/D)+1 dates per location, D >= 1 being the whole days of
\* the step; it starts at begin and ascends by D days, and every location
\* gets one task per date, in that order.
C12_FloorDateCount ==
    ppc = "planned" =>
        LET D == step \div 86400 IN
        /\ D >= 1
        /\ Len(dates) = ((config.end_date - config.begin_date) \div D) + 1
        /\ \A i \in DOMAIN dates : dates[i] = config.begin_date + (i - 1) * D
        /\ Len(tasks) = Len(config.locations) * Len(dates)
        /\ \A k \in DOMAIN config.locations :
              /\ \A i \in DOMAIN dates :
                    tasks[(k - 1) * Len(dates) + i].location = config.locations[k]
              /\ TaskDatesOf(k) = [ i \in DOMAIN dates |-> isoformat(dates[i]) ]

\* A step of two days over a range of three: two dates (ceil gives three),
\* for two locations.
C12_Witness ==
    /\ ppc = "planned"
    /\ step = 2 * 86400
    /\ config.end_date - config.begin_date = 3
    /\ Len(dates) = 2
    /\ Len(tasks) = 4

\* C13. Range expansion terminates: build_date_range appends dates that are
\* strictly later each time, so never more than the days from begin to end.
C13_RangeAdvances ==
    /\ \A i \in 1..(Len(dates) - 1) : dates[i] < dates[i + 1]
    /\ Len(dates) <= config.end_date - config.begin_date + 1

\* C14. parse_iso8601_duration raises for a string with a leading minus sign,
\* for a string outside the grammar and for a zero duration, and what it
\* returns is positive.
C14_RejectsNonPositive ==
    ppc \notin {"idle", "parse"} =>
        LET text == config.time_increment
            match == DurationMatch(text)
            zero == match.matched /\ timedelta(Part(match.days), Part(match.hours),
                                               Part(match.minutes), Part(match.seconds)) = 0
        IN  /\ (At(text, 1) = "-" \/ ~match.matched \/ zero) => ppc = "rejected"
            /\ ppc # "rejected" => step > 0

\* C15. A positive duration with only a days component is accepted: for
\* begin = 2024-01-01, end = 2024-01-02, step "+P1D" and one location the
\* planner is not stopped by the parser and plans two tasks with one
\* structured path.
C15_DaysOnlyAccepted ==
    ( /\ config.time_increment = <<"+", "P", "1", "D">>
      /\ config.begin_date = 0 /\ config.end_date = 1
      /\ Len(config.locations) = 1 ) =>
        /\ ppc # "rejected"
        /\ ppc = "planned" =>
              /\ Len(tasks) = 2
              /\ tasks[1].structured_path = tasks[2].structured_path

\* The date of the k-th task, as build_date_range produced it.
TaskDay(k) == dates[((k - 1) % Len(dates)) + 1]

\* The tasks whose raw path the group of a key holds.
TasksOfGroup(key) ==
    { k \in DOMAIN tasks :
        \E i \in DOMAIN grouped[key].raw_paths :
            grouped[key].raw_paths[i] = tasks[k].raw_path }

\* C16. Grouping of a planned task list: every task is in one group; two
\* tasks are in the same group exactly when they have the same location and
\* the same year and month; the tasks of a group carry one structured path,
\* which is the group's and that of the first task of the group.
C16_GroupsByLocationMonth ==
    ppc = "grouped" =>
        /\ \A k \in DOMAIN tasks :
              Cardinality({ key \in DOMAIN grouped : k \in TasksOfGroup(key) }) = 1
        /\ \A j, k \in DOMAIN tasks :
              (\E key \in DOMAIN grouped : {j, k} \subseteq TasksOfGroup(key))
              <=> /\ tasks[j].location = tasks[k].location
                  /\ YearOf(TaskDay(j)) = YearOf(TaskDay(k))
                  /\ MonthOf(TaskDay(j)) = MonthOf(TaskDay(k))
        /\ \A key \in DOMAIN grouped :
              /\ Len(grouped[key].raw_paths) = Cardinality(TasksOfGroup(key))
              /\ \A k \in TasksOfGroup(key) :
                    tasks[k].structured_path = grouped[key].structured_path
              /\ \E first \in TasksOfGroup(key) :
                    /\ \A k \in TasksOfGroup(key) : first <= k
                    /\ grouped[key].structured_path = tasks[first].structured_path

\* Two locations over days of three months, January of two years among them:
\* six groups, one of them with two tasks.
C16_Witness ==
    /\ ppc = "grouped"
    /\ Len(config.locations) = 2
    /\ Cardinality(DOMAIN grouped) = 6
    /\ \E key \in DOMAIN grouped : Len(grouped[key].raw_paths) = 2
    /\ \E j, k \in DOMAIN tasks :
          /\ MonthOf(TaskDay(j)) = MonthOf(TaskDay(k))
          /\ YearOf(TaskDay(j)) # YearOf(TaskDay(k))

-----------------------------------------------------------------------------
(* =============== fetch stage: the claims on repeated runs ============== *)

\* C17. Retry checkpoint: in every step of scrape, over all its runs, a file
\* appears at a raw path only with a fetch that succeeded and a task counted
\* as written; a task that fails leaves no file at its raw path; and a request
\* is issued only for a task without a raw file.
C17_FileOnlyAfterSuccess ==
    [][ /\ \A p \in RawPaths :
              (rawfiles[p] = "absent" /\ rawfiles'[p] # "absent")
              => /\ fetchResult' = "returned"
                 /\ total' = total + 1
        /\ errors' = errors + 1 => rawfiles'[CurTask.raw_path] = "absent"
        /\ requests' = requests + 1 => rawfiles[CurTask.raw_path] = "absent" ]_vars

\* C18. When fetch_day returns a response without hourly timestamps and
\* write_parquet does not fail, the file at the raw path is the zero-row
\* table and the task is counted and logged as written; a zero-row file stays,
\* and whenever the loop of scrape reaches its task, in this run or a later
\* one, the task is skipped without a request.
C18_EmptyResponseIsCheckpoint ==
    [][ /\ ( /\ pc = "fetch"
             /\ requests' = requests + 1
             /\ lastResponse' = "empty"
             /\ errors' = errors )
           => /\ rawfiles'[CurTask.raw_path] = "empty"
              /\ total' = total + 1
              /\ log' = Append(log, [kind |-> "wrote", exc |-> "none",
                                     date |-> CurTask.date])
        /\ \A p \in RawPaths : rawfiles[p] = "empty" => rawfiles'[p] = "empty"
        /\ (InLoop /\ rawfiles[CurTask.raw_path] = "empty")
           => /\ requests' = requests
              /\ skipped' = skipped + 1
              /\ total' = total
              /\ pc' = "loop" ]_vars

\* In the second run a task is skipped whose raw file is the zero-row table
\* the first run wrote.
C18_Witness ==
    /\ run = 2
    /\ \E k \in DOMAIN log :
          /\ log[k].kind = "skip"
          /\ rawfiles[manifest.tasks[k].raw_path] = "empty"

-----------------------------------------------------------------------------
(* ======================= long_to_wide: the claims ====================== *)

\* The (timestamp, location) pairs of the long table.
LongPairs == { <<df_long[i].timestamp, df_long[i].location>> : i \in DOMAIN df_long }

\* The value of the last row, in input order, of a (timestamp, location,
\* sensor) that occurs in the long table.
LastValue(ts, loc, sn) ==
    LET values == GroupValues(df_long, ts, loc, sn) IN values[Len(values)]

\* C19. long_to_wide returns one row for each (timestamp, location) pair of
\* its input, and the cell of a (timestamp, location, sensor) of the input
\* holds the value of the last input row for it, null included.
C19_LastRowWins ==
    vpc = "pivoted" =>
        /\ Len(wide.rows) = Cardinality(LongPairs)
        /\ \A p \in LongPairs :
              Cardinality({ i \in DOMAIN wide.rows :
                              <<wide.rows[i][1], wide.rows[i][2]>> = p }) = 1
        /\ \A k \in DOMAIN df_long :
              LET r == df_long[k] IN
              \/ LastValue(r.timestamp, r.location, r.sensor_name) = NaN
                 /\ \A i \in DOMAIN wide.rows, j \in 3..Len(wide.cols) :
                       ( /\ <<wide.rows[i][1], wide.rows[i][2]>> = <<r.timestamp, r.location>>
                         /\ wide.cols[j] = Rename(r.sensor_name)
                         /\ \A j2 \in 3..Len(wide.cols) :
                               wide.cols[j2] = wide.cols[j] => j2 = j )
                       => wide.rows[i][j] = NaN
              \/ \E i \in DOMAIN wide.rows, j \in 3..Len(wide.cols) :
                    /\ <<wide.rows[i][1], wide.rows[i][2]>> = <<r.timestamp, r.location>>
                    /\ wide.cols[j] = Rename(r.sensor_name)
                    /\ wide.rows[i][j] = LastValue(r.timestamp, r.location, r.sensor_name)

\* C20. For a non-empty long table the columns long_to_wide returns are
\* timestamp, location, then the sensor columns in alphabetical order of
\* their final names, no label twice.
C20_CanonicalColumnsAfterRename ==
    (vpc = "pivoted" /\ df_long # <<>>) =>
        LET sensor_cols == SubSeq(wide.cols, 3, Len(wide.cols)) IN
        /\ SubSeq(wide.cols, 1, 2) = FIXED_COLS
        /\ sensor_cols = SortedSet(SetOf(sensor_cols))

-----------------------------------------------------------------------------
(* ============== transform(): partial months, the claim ================= *)

\* The raw paths of a list that hold a file.
PresentFiles(raw) == SelectSeq(raw, LAMBDA f : f # "absent")

\* Some raw file of the list holds rows.
HasRows(raw) == \E i \in DOMAIN raw : raw[i] \in {"rows", "malformed"}

\* C21. Partial-month tolerance, in every step of the loop of transform():
\* raw paths without a file change nothing (the long table is the one of the
\* files that exist); a group with a missing raw path and a raw file scrape
\* wrote with rows is not skipped, and the step that counts it as processed
\* has written its structured file; a group with no raw rows at all is
\* counted as skipped, logged so, and its structured file stays as it was
\* (absent stays absent).
C21_PartialMonthTolerated ==
    [][ InGroupLoop =>
          /\ read_raw_long(graw') = read_raw_long(PresentFiles(graw'))
          /\ ( /\ \E i \in DOMAIN graw' : graw'[i] = "absent"
               /\ \E i \in DOMAIN graw' : graw'[i] = "rows" )
             => /\ gskipped' = gskipped
                /\ glog' # Append(glog, "skipped")
                /\ processed' = processed + 1
                   => /\ groups' = [groups EXCEPT ![gidx] = "written"]
                      /\ glog' = Append(glog, "wrote")
                      /\ gpc' = "loop"
          /\ ~HasRows(graw')
             => /\ gskipped' = gskipped + 1
                /\ processed' = processed
                /\ groups' = groups
                /\ glog' = Append(glog, "skipped")
                /\ gidx' = gidx + 1
                /\ gpc' = "loop" ]_vars

\* transform() ended after it skipped a group whose raw paths hold no file,
\* leaving no structured file for it, and wrote a group with one raw path
\* missing and one raw file with rows.
C21_Witness ==
    /\ gpc = "done"
    /\ glog = <<"skipped", "wrote">>
    /\ groups = <<"absent", "written">>
    /\ graw = <<"absent", "rows">>
    /\ processed = 1
    /\ gskipped = 1

=============================================================================
